---- MODULE Spec2Model ----
(***************************************************************************)
(* Model of the ILMT/BigFix weekly table tagger.                           *)
(*                                                                         *)
(* The master table 020_all.csv is annotated by tagging scripts 005..050;  *)
(* each one loads a reference list, places its status column after an      *)
(* anchor column, recomputes the column by membership of the row key, and  *)
(* overwrites the table file.  The orchestrators run the scripts one after *)
(* the other and stop at the first failure.                                *)
(*                                                                         *)
(* Python lists are modelled as sequences; list positions are the 0-based  *)
(* positions of the source, converted at the access.  A file is a record   *)
(* [exists, rows, nl]: the rows csv.reader yields and the line terminator  *)
(* the bytes on disk carry.                                                *)
(***************************************************************************)
EXTENDS Integers, Sequences, FiniteSets, TLC

(***************************************************************************)
(* Bounds of the model.                                                    *)
(***************************************************************************)
\* columns after the key column in a table handed to a tagging script
MaxCols == 3
\* fields a data row may carry beyond the length of the header
MaxExtra == 1
\* invocations of the same script on the same files in one behaviour
MaxRuns == 2

\* number of invocations in a sequence of tagging scripts run in any order
MaxSeq == 9

\* number of characters of a file of the pre-processing scripts after its
\* header line
MaxBody == 3

(***************************************************************************)
(* Column names and labels of the scripts.                                 *)
(***************************************************************************)
STATUS_HEADER == "Not reporting to BigFix"
NOT_REPORTING_LABEL == "Not Reporting"
REPORTING_LABEL == "Reporting"

CMDB_STATUS_HEADER == "CMDB Status"
ACTIVE_LABEL == "In CMDB"
INACTIVE_LABEL == "Not in CMDB"

DELAYED_STATUS_HEADER == "Delayed Data Upload"
DELAYED_LABEL == "YES"
NOT_DELAYED_LABEL == "NO"
FAILED_SCAN_HEADER == "Failed Scan"
MISSING_SCAN_HEADER == "Missing Scan"
PRIMARY_REFERENCE_HEADER == "Failed Scan"
FALLBACK_REFERENCE_HEADER == "Delayed Data Upload"
SCAN_NOT_UPLOADED_HEADER == "Scan Not Uploaded"
NO_VM_MANAGER_HEADER == "No VM Manager Data"
OUTDATED_SCAN_HEADER == "Outdated Scan"
NO_SCAN_DATA_HEADER == "No Scan Data"
OUTDATED_VM_MANAGER_HEADER == "Outdated VM Manager Data"
YES_LABEL == "YES"
NO_LABEL == "NO"

\* REFERENCE_HEADERS of 040_tag_no_vm_manager_data.py
REFERENCE_HEADERS_040 ==
    << "No Scan Data", "Scan Not Uploaded", "Missing Scan", "Failed Scan",
       "Delayed Data Upload" >>

\* REFERENCE_HEADERS of 050_tag_outdated_scan.py
REFERENCE_HEADERS_050 ==
    << "Outdated VM Manager Data", "No VM Manager Data", "No Scan Data",
       "Scan Not Uploaded", "Missing Scan", "Failed Scan",
       "Delayed Data Upload" >>

\* the tagging scripts whose source is modelled
Stages == {"005", "010", "015", "020", "025", "030", "040", "050"}

\* the scripts that resolve an anchor column
AnchorStages == Stages \ {"005"}

\* 035 (No Scan Data): placed after the columns of the scripts before it
Config035 ==
    [column |-> NO_SCAN_DATA_HEADER, yes |-> YES_LABEL, no |-> NO_LABEL,
     anchors |-> << SCAN_NOT_UPLOADED_HEADER, MISSING_SCAN_HEADER,
                    FAILED_SCAN_HEADER, DELAYED_STATUS_HEADER >>]

\* 045 (Outdated VM Manager Data): placed after the columns before it
Config045 ==
    [column |-> OUTDATED_VM_MANAGER_HEADER, yes |-> YES_LABEL, no |-> NO_LABEL,
     anchors |-> << NO_VM_MANAGER_HEADER, NO_SCAN_DATA_HEADER,
                    SCAN_NOT_UPLOADED_HEADER, MISSING_SCAN_HEADER,
                    FAILED_SCAN_HEADER, DELAYED_STATUS_HEADER >>]

\* per script: status column, labels, anchor candidates in priority order
Config(s) ==
    CASE s = "005" -> [column |-> STATUS_HEADER, yes |-> NOT_REPORTING_LABEL,
                       no |-> REPORTING_LABEL, anchors |-> << >>]
      [] s = "010" -> [column |-> CMDB_STATUS_HEADER, yes |-> ACTIVE_LABEL,
                       no |-> INACTIVE_LABEL, anchors |-> << STATUS_HEADER >>]
      [] s = "015" -> [column |-> DELAYED_STATUS_HEADER, yes |-> DELAYED_LABEL,
                       no |-> NOT_DELAYED_LABEL, anchors |-> << CMDB_STATUS_HEADER >>]
      [] s = "020" -> [column |-> FAILED_SCAN_HEADER, yes |-> YES_LABEL,
                       no |-> NO_LABEL, anchors |-> << DELAYED_STATUS_HEADER >>]
      [] s = "025" -> [column |-> MISSING_SCAN_HEADER, yes |-> YES_LABEL,
                       no |-> NO_LABEL,
                       anchors |-> << PRIMARY_REFERENCE_HEADER,
                                      FALLBACK_REFERENCE_HEADER >>]
      [] s = "030" -> [column |-> SCAN_NOT_UPLOADED_HEADER, yes |-> YES_LABEL,
                       no |-> NO_LABEL, anchors |-> << MISSING_SCAN_HEADER >>]
      [] s = "035" -> Config035
      [] s = "040" -> [column |-> NO_VM_MANAGER_HEADER, yes |-> YES_LABEL,
                       no |-> NO_LABEL, anchors |-> REFERENCE_HEADERS_040]
      [] s = "045" -> Config045
      [] s = "050" -> [column |-> OUTDATED_SCAN_HEADER, yes |-> YES_LABEL,
                       no |-> NO_LABEL, anchors |-> REFERENCE_HEADERS_050]

(***************************************************************************)
(* Python list and string operations, with the 0-based positions of the    *)
(* source.                                                                 *)
(***************************************************************************)
SeqRange(q) == {q[i] : i \in 1..Len(q)}

MinOf(S) == CHOOSE x \in S : \A y \in S : x <= y

\* list.index(x): 0-based position of the first x, -1 for ValueError
ListIndex(l, x) ==
    IF x \in SeqRange(l)
    THEN MinOf({i \in 1..Len(l) : l[i] = x}) - 1
    ELSE -1

\* what stands for a list when an operation on it raises IndexError
Raised == << "IndexError" >>

\* list.pop(i) for i >= 0: the list that is left, IndexError past the end
ListPop(l, i) ==
    IF i < Len(l) THEN SubSeq(l, 1, i) \o SubSeq(l, i + 2, Len(l)) ELSE Raised

\* list.insert(i, x) for i >= 0: a position past the end appends
ListInsert(l, i, x) ==
    IF i >= Len(l)
    THEN Append(l, x)
    ELSE SubSeq(l, 1, i) \o << x >> \o SubSeq(l, i + 1, Len(l))

\* list.extend([""] * n): nothing is added for n <= 0
ListExtend(l, n) == IF n <= 0 THEN l ELSE l \o [j \in 1..n |-> ""]

\* l[i] = x for i >= 0: IndexError past the end
ListSet(l, i, x) == IF i < Len(l) THEN [l EXCEPT ![i + 1] = x] ELSE Raised

\* str.strip() on the strings of the model
Strip(s) ==
    CASE s \in {" h1", "h1 ", " h1 "} -> "h1"
      [] s \in {" h3", "h3 "} -> "h3"
      [] s = " " -> ""
      [] OTHER -> s

(***************************************************************************)
(* Files.                                                                  *)
(***************************************************************************)
NoFile == [exists |-> FALSE, rows |-> << >>, nl |-> "LF"]

\* a file holding the given rows, its lines ended by nl
MkFile(rs, nl) == [exists |-> TRUE, rows |-> rs, nl |-> nl]

\* list(csv.reader(handle, delimiter="\t")) with newline="": the rows,
\* whatever the terminator of the lines
ReadCsv(f) == f.rows

\* csv.writer(handle, delimiter="\t", lineterminator="\n").writerows(rows)
WriteCsv(rs) == MkFile(rs, "LF")

\* open(path, "w"): the file exists and is empty
Truncated == MkFile(<< >>, "LF")

(***************************************************************************)
(* The reference set loader.                                               *)
(***************************************************************************)
\* variant: the first row is read like the rows after it
load_computer_names_with_header(f) ==
    LET rs == ReadCsv(f)
    IN { Strip(rs[i][1]) :
           i \in { j \in 1..Len(rs) : rs[j] # << >> /\ Strip(rs[j][1]) # "" } }

\* load_computer_names and its copies: trimmed non-empty first fields of
\* the rows after the first one
load_computer_names(f) ==
    LET rs == ReadCsv(f)
    IN { Strip(rs[i][1]) :
           i \in { j \in 2..Len(rs) : rs[j] # << >> /\ Strip(rs[j][1]) # "" } }

(***************************************************************************)
(* The in-memory part of the tagging scripts.  Each operator takes the     *)
(* rows read from the table (at least the header row) and the loaded names *)
(* and returns [err, rows, reference_index, status_index].                 *)
(***************************************************************************)
\* variant: the candidates are tried from the last to the first
ResolveAnchorFallbackFirst(header, candidates) ==
    LET found == {i \in 1..Len(candidates) : candidates[i] \in SeqRange(header)}
    IN IF found = {} THEN -1
       ELSE ListIndex(header,
                      candidates[CHOOSE i \in found : \A j \in found : j <= i])

\* variant: when no candidate is found the index keeps a default of 0
ResolveAnchorDefaultsToZero(header, candidates) ==
    LET found == {i \in 1..Len(candidates) : candidates[i] \in SeqRange(header)}
    IN IF found = {} THEN 0
       ELSE ListIndex(header, candidates[MinOf(found)])

\* variant: the first header entry that is one of the candidates
ResolveAnchorHeaderOrder(header, candidates) ==
    LET found == {i \in 1..Len(header) : header[i] \in SeqRange(candidates)}
    IN IF found = {} THEN -1 ELSE MinOf(found) - 1

\* the for/else loop over the anchor candidates: the position of the first
\* candidate, in list order, that header.index finds; -1 when the else
\* branch raises ValueError
ResolveAnchor(header, candidates) ==
    LET found == {i \in 1..Len(candidates) : candidates[i] \in SeqRange(header)}
    IN IF found = {} THEN -1
       ELSE ListIndex(header, candidates[MinOf(found)])

\* the relocation loop body: pop the value, pad, insert at desired_index
RelocateRow(row, current_index, desired_index) ==
    LET value == IF Len(row) > current_index THEN row[current_index + 1] ELSE ""
        popped == IF Len(row) > current_index
                  THEN ListPop(row, current_index) ELSE row
        padded == ListExtend(popped, desired_index - Len(popped))
    IN IF popped = Raised THEN Raised
       ELSE ListInsert(padded, desired_index, value)

\* the insertion loop body: pad, insert "" at status_index
InsertRow(row, status_index) ==
    ListInsert(ListExtend(row, status_index - Len(row)), status_index, "")

\* variant: the column is inserted without a look at the header
PlaceColumnAlwaysInserts(rs, column, desired_index) ==
    << ListInsert(rs[1], desired_index, column) >>
    \o [k \in 1..(Len(rs) - 1) |-> InsertRow(rs[k + 1], desired_index)]

\* variant: an absent column is inserted at the index of the anchor
PlaceColumnBeforeAnchor(rs, column, desired_index) ==
    LET header == rs[1]
        current_index == ListIndex(header, column)
    IN IF current_index # -1
       THEN IF current_index # desired_index
            THEN << ListInsert(ListPop(header, current_index),
                               desired_index, column) >>
                 \o [k \in 1..(Len(rs) - 1) |->
                       RelocateRow(rs[k + 1], current_index, desired_index)]
            ELSE rs
       ELSE << ListInsert(header, desired_index - 1, column) >>
            \o [k \in 1..(Len(rs) - 1) |->
                  InsertRow(rs[k + 1], desired_index - 1)]

\* variant: a relocation inserts the column without removing the old one
PlaceColumnKeepsOldOne(rs, column, desired_index) ==
    LET header == rs[1]
        current_index == ListIndex(header, column)
    IN IF current_index # -1
       THEN IF current_index # desired_index
            THEN << ListInsert(header, desired_index, column) >>
                 \o [k \in 1..(Len(rs) - 1) |->
                       InsertRow(rs[k + 1], desired_index)]
            ELSE rs
       ELSE << ListInsert(header, desired_index, column) >>
            \o [k \in 1..(Len(rs) - 1) |-> InsertRow(rs[k + 1], desired_index)]

\* "if COLUMN in header: ... else: ..." of the anchor-based scripts
PlaceColumn(rs, column, desired_index) ==
    LET header == rs[1]
        current_index == ListIndex(header, column)
    IN IF current_index # -1
       THEN IF current_index # desired_index
            THEN << ListInsert(ListPop(header, current_index),
                               desired_index, column) >>
                 \o [k \in 1..(Len(rs) - 1) |->
                       RelocateRow(rs[k + 1], current_index, desired_index)]
            ELSE rs
       ELSE << ListInsert(header, desired_index, column) >>
            \o [k \in 1..(Len(rs) - 1) |-> InsertRow(rs[k + 1], desired_index)]

\* variant: a status field that holds a value is left as it is
AssignRowKeepsOld(row, status_index, names, yes, no) ==
    IF row = << >> \/ row = Raised THEN row
    ELSE LET name == Strip(row[1])
             status == IF name \in names THEN yes ELSE no
             padded == IF Len(row) <= status_index
                       THEN ListExtend(row, status_index - Len(row) + 1)
                       ELSE row
         IN IF padded[status_index + 1] # "" THEN padded
            ELSE ListSet(padded, status_index, status)

\* variant: the status is assigned without padding the row
AssignRowNoPadding(row, status_index, names, yes, no) ==
    IF row = << >> \/ row = Raised THEN row
    ELSE LET name == Strip(row[1])
             status == IF name \in names THEN yes ELSE no
         IN ListSet(row, status_index, status)

\* variant: a short row is padded by one field more
AssignRowPadsOneMore(row, status_index, names, yes, no) ==
    IF row = << >> \/ row = Raised THEN row
    ELSE LET name == Strip(row[1])
             status == IF name \in names THEN yes ELSE no
             padded == IF Len(row) <= status_index
                       THEN ListExtend(row, status_index - Len(row) + 2)
                       ELSE row
         IN ListSet(padded, status_index, status)

\* variant: the trimmed name is stored in the first field
AssignRowStoresTrimmed(row, status_index, names, yes, no) ==
    IF row = << >> \/ row = Raised THEN row
    ELSE LET name == Strip(row[1])
             status == IF name \in names THEN yes ELSE no
             padded == IF Len(row) <= status_index
                       THEN ListExtend(row, status_index - Len(row) + 1)
                       ELSE row
         IN ListSet(ListSet(padded, 0, name), status_index, status)

\* the value loop body for one row
AssignRow(row, status_index, names, yes, no) ==
    IF row = << >> \/ row = Raised THEN row
    ELSE LET name == Strip(row[1])
             status == IF name \in names THEN yes ELSE no
             padded == IF Len(row) <= status_index
                       THEN ListExtend(row, status_index - Len(row) + 1)
                       ELSE row
         IN ListSet(padded, status_index, status)

\* "for row in rows[1:]": the header row is left as it is
AssignStatus(rs, status_index, names, yes, no) ==
    << rs[1] >> \o
    [k \in 1..(Len(rs) - 1) |-> AssignRow(rs[k + 1], status_index, names, yes, no)]

\* the exception that ends the script when an operation on the header or
\* on a row has raised
ErrorOf(rs) ==
    IF \E k \in 1..Len(rs) : rs[k] = Raised THEN "IndexError" ELSE "none"

\* the body shared by 015, 020, 025, 030, 040, 050 after the rows are read
TagAnchored(rs, names, cfg) ==
    LET reference_index == ResolveAnchor(rs[1], cfg.anchors)
        desired_index == reference_index + 1
        tagged == AssignStatus(PlaceColumn(rs, cfg.column, desired_index),
                               desired_index, names, cfg.yes, cfg.no)
    IN IF reference_index = -1
       THEN [err |-> "ValueError", rows |-> rs,
             reference_index |-> -1, status_index |-> -1]
       ELSE [err |-> ErrorOf(tagged), rows |-> tagged,
             reference_index |-> reference_index,
             status_index |-> desired_index]

\* variant: 005 moves a column it finds elsewhere to index 1
tag_reporting_status_relocates(rs, names) ==
    LET tagged == AssignStatus(PlaceColumn(rs, STATUS_HEADER, 1), 1, names,
                               NOT_REPORTING_LABEL, REPORTING_LABEL)
    IN [err |-> ErrorOf(tagged), rows |-> tagged,
        reference_index |-> -1, status_index |-> 1]

\* 005: the column is inserted at 1 when absent and never relocated
tag_reporting_status(rs, names) ==
    LET header == rs[1]
        present == STATUS_HEADER \in SeqRange(header)
        status_index == IF present THEN ListIndex(header, STATUS_HEADER) ELSE 1
        placed == IF present THEN rs
                  ELSE << ListInsert(header, 1, STATUS_HEADER) >>
                       \o [k \in 1..(Len(rs) - 1) |->
                             ListInsert(rs[k + 1], status_index, "")]
        tagged == AssignStatus(placed, status_index, names,
                               NOT_REPORTING_LABEL, REPORTING_LABEL)
    IN [err |-> ErrorOf(tagged), rows |-> tagged,
        reference_index |-> -1, status_index |-> status_index]

\* variant: 010 raises ValueError on a missing anchor, as the scripts after
\* it do
tag_cmdb_status_needs_anchor(rs, names) == TagAnchored(rs, names, Config("010"))

\* 010: a missing anchor column is inserted at 1 instead of raising
tag_cmdb_status(rs, names) ==
    LET header == rs[1]
        missing == ListIndex(header, STATUS_HEADER) = -1
        reference_index == IF missing THEN 1 ELSE ListIndex(header, STATUS_HEADER)
        anchored == IF missing
                    THEN << ListInsert(header, 1, STATUS_HEADER) >>
                         \o [k \in 1..(Len(rs) - 1) |-> InsertRow(rs[k + 1], 1)]
                    ELSE rs
        desired_index == reference_index + 1
        tagged == AssignStatus(PlaceColumn(anchored, CMDB_STATUS_HEADER,
                                           desired_index),
                               desired_index, names, ACTIVE_LABEL,
                               INACTIVE_LABEL)
    IN [err |-> ErrorOf(tagged), rows |-> tagged,
        reference_index |-> reference_index, status_index |-> desired_index]

tag_delayed_status(rs, names) == TagAnchored(rs, names, Config("015"))

tag_failed_scan_status(rs, names) == TagAnchored(rs, names, Config("020"))

tag_missing_scan_status(rs, names) == TagAnchored(rs, names, Config("025"))

tag_scan_not_uploaded_status(rs, names) == TagAnchored(rs, names, Config("030"))

tag_no_vm_manager_status(rs, names) == TagAnchored(rs, names, Config("040"))

tag_outdated_scan_status(rs, names) == TagAnchored(rs, names, Config("050"))

\* 035 and 045 are run by the orchestrator; they follow the tagger contract
tag_no_scan_data_status(rs, names) == TagAnchored(rs, names, Config035)

tag_outdated_vm_manager_status(rs, names) == TagAnchored(rs, names, Config045)

\* the in-memory result of script s
Tag(s, rs, names) ==
    CASE s = "005" -> tag_reporting_status(rs, names)
      [] s = "010" -> tag_cmdb_status(rs, names)
      [] s = "015" -> tag_delayed_status(rs, names)
      [] s = "020" -> tag_failed_scan_status(rs, names)
      [] s = "025" -> tag_missing_scan_status(rs, names)
      [] s = "030" -> tag_scan_not_uploaded_status(rs, names)
      [] s = "035" -> tag_no_scan_data_status(rs, names)
      [] s = "040" -> tag_no_vm_manager_status(rs, names)
      [] s = "045" -> tag_outdated_vm_manager_status(rs, names)
      [] s = "050" -> tag_outdated_scan_status(rs, names)

(***************************************************************************)
(* The files the scripts are given.                                        *)
(***************************************************************************)
\* name of the key column, the first column of every table
KEY_HEADER == "Computer Name"

\* a column no script names
OTHER_HEADER == "OS"

\* first fields of the data rows: plain, other host, padded by blanks,
\* other letter case
Keys == << "h1", "h2", " h1 ", "H1" >>

\* line terminators a file on disk may carry
Terminators == {"LF", "CRLF"}

\* the value a full data row holds under a column
CellValue(c) ==
    CASE c = OTHER_HEADER -> "linux"
      [] c = STATUS_HEADER -> "old nrep"
      [] c = CMDB_STATUS_HEADER -> "old cmdb"
      [] c = DELAYED_STATUS_HEADER -> "old delayed"
      [] c = FAILED_SCAN_HEADER -> "old failed"
      [] c = MISSING_SCAN_HEADER -> "old missing"
      [] c = SCAN_NOT_UPLOADED_HEADER -> "old notupl"
      [] c = NO_SCAN_DATA_HEADER -> "old noscan"
      [] c = NO_VM_MANAGER_HEADER -> "old novm"
      [] c = OUTDATED_VM_MANAGER_HEADER -> "old outvm"
      [] c = OUTDATED_SCAN_HEADER -> "old outscan"
      [] OTHER -> "?"

\* the column names script s compares header entries with, and one other
Relevant(s) ==
    {Config(s).column} \cup SeqRange(Config(s).anchors) \cup {OTHER_HEADER}

\* the sequences of n distinct elements of U
Arrangements(U, n) ==
    {q \in [1..n -> U] : \A i, j \in 1..n : i # j => q[i] # q[j]}

\* headers with unique names, the key column first
Headers(s) ==
    UNION { { << KEY_HEADER >> \o q : q \in Arrangements(Relevant(s), n) } :
            n \in 0..MaxCols }

\* a data row of every length from 0 to len(header) + MaxExtra
FullRow(h, key) ==
    [i \in 1..(Len(h) + MaxExtra) |->
        IF i = 1 THEN key
        ELSE IF i <= Len(h) THEN CellValue(h[i]) ELSE "extra"]

BatteryRow(h, n) == SubSeq(FullRow(h, Keys[(n % Len(Keys)) + 1]), 1, n)

Battery(h) == [k \in 1..(Len(h) + MaxExtra + 1) |-> BatteryRow(h, k - 1)]

\* the table files script s may be given: none, an empty one, a header
\* alone, a header with data rows
Tables(s) ==
    {NoFile, MkFile(<< >>, "LF"), MkFile(<< << KEY_HEADER >> >>, "LF")}
    \cup { MkFile(<< h >> \o Battery(h), nl) :
             h \in Headers(s), nl \in Terminators }

\* a reference list: header row, then keys with blanks, a blank line, an
\* empty key, a duplicate
RefHosts ==
    MkFile(<< << KEY_HEADER, "Reason" >>, << " h1", "x" >>, << >>, << "" >>,
              << "h3" >>, << "h1" >> >>, "CRLF")

\* a reference list that holds its header row only
RefHeaderOnly == MkFile(<< << "h2" >> >>, "LF")

\* the reference files a script may be given
RefFiles == {NoFile, RefHosts, RefHeaderOnly}

\* the tagging scripts of the scripts list that are in src/scripts, in the
\* order of the list
PipeStages == << "005", "010", "015", "020", "025", "030", "040", "050" >>

\* a second column no script names
SECOND_OTHER_HEADER == "IP"

\* headers that hold none of the status column names
FreshHeaders ==
    { << KEY_HEADER >>, << KEY_HEADER, OTHER_HEADER >>,
      << KEY_HEADER, OTHER_HEADER, SECOND_OTHER_HEADER >> }

\* the table files the sequence of all tagging scripts may start from
PipeTables ==
    { MkFile(<< h >> \o Battery(h), nl) :
        h \in FreshHeaders, nl \in Terminators }

(***************************************************************************)
(* Texts: the content of a file of the pre-processing scripts is a         *)
(* sequence of characters.                                                 *)
(***************************************************************************)
TAB == "\t"

NEWLINE == "\n"

\* position of the first c in text t, 0 when there is none
FirstOf(t, c) ==
    IF c \in SeqRange(t) THEN MinOf({i \in 1..Len(t) : t[i] = c}) ELSE 0

\* str.split(sep) with a separator of one character
RECURSIVE SplitOn(_, _)
SplitOn(t, sep) ==
    IF FirstOf(t, sep) = 0 THEN << t >>
    ELSE << SubSeq(t, 1, FirstOf(t, sep) - 1) >>
         \o SplitOn(SubSeq(t, FirstOf(t, sep) + 1, Len(t)), sep)

\* sep.join(parts)
RECURSIVE JoinWith(_, _)
JoinWith(parts, sep) ==
    IF parts = << >> THEN << >>
    ELSE IF Len(parts) = 1 THEN parts[1]
    ELSE parts[1] \o << sep >> \o JoinWith(Tail(parts), sep)

\* "".join(parts), as writelines does
RECURSIVE Concat(_)
Concat(parts) == IF parts = << >> THEN << >> ELSE parts[1] \o Concat(Tail(parts))

IsSpace(c) == c \in {" ", TAB, NEWLINE}

RECURSIVE LStrip(_)
LStrip(t) == IF t # << >> /\ IsSpace(t[1]) THEN LStrip(Tail(t)) ELSE t

RECURSIVE RStrip(_)
RStrip(t) ==
    IF t # << >> /\ IsSpace(t[Len(t)])
    THEN RStrip(SubSeq(t, 1, Len(t) - 1)) ELSE t

\* str.strip() on a text
StripText(t) == RStrip(LStrip(t))

\* readlines(): the lines, each with its terminator
RECURSIVE ReadLines(_)
ReadLines(t) ==
    IF t = << >> THEN << >>
    ELSE IF FirstOf(t, NEWLINE) = 0 THEN << t >>
    ELSE << SubSeq(t, 1, FirstOf(t, NEWLINE)) >>
         \o ReadLines(SubSeq(t, FirstOf(t, NEWLINE) + 1, Len(t)))

\* the line without its terminator
Chomp(line) ==
    IF line # << >> /\ line[Len(line)] = NEWLINE
    THEN SubSeq(line, 1, Len(line) - 1) ELSE line

\* splitlines(): the lines without their terminators
SplitLines(t) == [k \in 1..Len(ReadLines(t)) |-> Chomp(ReadLines(t)[k])]

\* the part of a name before its first dot, the name when it has no dot
BeforeFirstDot(name) ==
    IF "." \in SeqRange(name) THEN SplitOn(name, ".")[1] ELSE name

(***************************************************************************)
(* src/remove_domain_suffix.py, which works on lines.                      *)
(***************************************************************************)
\* the loop body for a line after the first
SuffixLine(line) ==
    IF StripText(line) # << >>
    THEN LET parts == SplitOn(line, TAB)
         IN JoinWith(<< BeforeFirstDot(parts[1]) >> \o Tail(parts), TAB)
    ELSE line

\* the text written for the text read
remove_domain_suffix_lines(t) ==
    LET lines == ReadLines(t)
    IN Concat([i \in 1..Len(lines) |->
                  IF i = 1 THEN lines[1] ELSE SuffixLine(lines[i])])

(***************************************************************************)
(* src/scripts/remove_domain_suffix.py, which works with the csv module,   *)
(* and the other batch scripts.                                            *)
(***************************************************************************)
SKIP_DOMAIN_FILES == {"023_CMDB_active.txt"}

\* csv.reader on the lines of a text without quote characters: a list of
\* fields per line, no field for an empty line
CsvRows(t, delimiter) ==
    [k \in 1..Len(SplitLines(t)) |->
        IF SplitLines(t)[k] = << >> THEN << >>
        ELSE SplitOn(SplitLines(t)[k], delimiter)]

\* csv.writer.writerow: the fields joined, a single empty field quoted
CsvLine(row, delimiter) ==
    (IF row = << << >> >> THEN << "\"", "\"" >> ELSE JoinWith(row, delimiter))
    \o << NEWLINE >>

\* the loop body for one row
SuffixRow(idx, row) ==
    IF idx = 0 \/ row = << >> THEN row
    ELSE << BeforeFirstDot(StripText(row[1])) >> \o Tail(row)

\* the text written for the text read
remove_domain_suffix_csv(t) ==
    IF t = << >> THEN << >>
    ELSE LET delimiter == IF TAB \in SeqRange(SplitLines(t)[1]) THEN TAB ELSE ","
             parsed == CsvRows(t, delimiter)
         IN Concat([k \in 1..Len(parsed) |->
                       CsvLine(SuffixRow(k - 1, parsed[k]), delimiter)])

\* replace_commas_with_tabs: the text written for the text read
replace_commas_with_tabs(t) ==
    IF StripText(t) = << >> THEN << >>
    ELSE [i \in 1..Len(t) |-> IF t[i] = "," THEN TAB ELSE t[i]]

\* no folder at the path
NoFolder == [exists |-> FALSE, files |-> [n \in {} |-> 0]]

\* a folder with the given files, a function from file names
MkFolder(fs) == [exists |-> TRUE, files |-> fs]

\* a file of a folder; the operating system refuses to open, replace or
\* rename a file that is not ok
MkText(t) == [ok |-> TRUE, text |-> t]

Refused == [ok |-> FALSE, text |-> << >>]

\* f.suffix.lower() == '.txt' on the file names of the model
IsTxt(n) == n \in {"020_all.txt", "023_CMDB_active.txt"}

\* txt_file.with_suffix('.csv')
WithCsvSuffix(n) ==
    CASE n = "020_all.txt" -> "020_all.csv"
      [] n = "023_CMDB_active.txt" -> "023_CMDB_active.csv"

\* txt_files of a folder
TxtFiles(folder) == {n \in DOMAIN folder.files : IsTxt(n)}

\* open(path, 'w') is possible: no file there, or one that is ok
Writable(folder, n) == n \notin DOMAIN folder.files \/ folder.files[n].ok

\* the files of a folder after the writes w, a function from names to texts
WithWritten(folder, w) ==
    [n \in DOMAIN folder.files \cup DOMAIN w |->
        IF n \in DOMAIN w THEN MkText(w[n]) ELSE folder.files[n]]

\* the batch scripts: the three of run_all.py and the line-based script
BatchScripts ==
    {"remove_domain_suffix", "replace_commas_with_tabs", "rename_txt_to_csv",
     "remove_domain_suffix_lines"}

\* process_all_files_in_folder of the two remove_domain_suffix scripts:
\* from the input folder into the processed folder
ProcessSuffix(script, inb, outb) ==
    LET txt == TxtFiles(inb)
        copied(n) == script = "remove_domain_suffix" /\ n \in SKIP_DOMAIN_FILES
        done == {n \in txt : inb.files[n].ok /\ Writable(outb, n)}
        w == [n \in done |->
                IF copied(n) THEN inb.files[n].text
                ELSE IF script = "remove_domain_suffix"
                THEN remove_domain_suffix_csv(inb.files[n].text)
                ELSE remove_domain_suffix_lines(inb.files[n].text)]
    IN IF ~inb.exists
       THEN [outbox |-> outb, success |-> 0, total |-> 0]
       ELSE IF txt = {}
       THEN [outbox |-> MkFolder(outb.files), success |-> 0, total |-> 0]
       ELSE [outbox |-> MkFolder(WithWritten(outb, w)),
             success |-> Cardinality(done), total |-> Cardinality(txt)]

\* process_all_files_in_folder of replace_commas_with_tabs: in place
ProcessCommas(outb) ==
    LET txt == TxtFiles(outb)
        done == {n \in txt : outb.files[n].ok}
        w == [n \in done |-> replace_commas_with_tabs(outb.files[n].text)]
    IN IF ~outb.exists \/ txt = {}
       THEN [outbox |-> outb, success |-> 0, total |-> 0]
       ELSE [outbox |-> MkFolder(WithWritten(outb, w)),
             success |-> Cardinality(done), total |-> Cardinality(txt)]

\* rename_txt_to_csv: an existing .csv file is removed, then the rename
ProcessRename(outb) ==
    LET txt == TxtFiles(outb)
        done == {n \in txt :
                   outb.files[n].ok /\ Writable(outb, WithCsvSuffix(n))}
        kept == DOMAIN outb.files \ done
        new == {WithCsvSuffix(n) : n \in done}
    IN IF ~outb.exists \/ txt = {}
       THEN [outbox |-> outb, success |-> 0, total |-> 0]
       ELSE [outbox |->
                MkFolder([m \in kept \cup new |->
                            IF m \in new
                            THEN outb.files[CHOOSE n \in done :
                                               WithCsvSuffix(n) = m]
                            ELSE outb.files[m]]),
             success |-> Cardinality(done), total |-> Cardinality(txt)]

\* what a batch script does to the processed folder, and its two counts
RunBatch(script, inb, outb) ==
    CASE script \in {"remove_domain_suffix", "remove_domain_suffix_lines"} ->
            ProcessSuffix(script, inb, outb)
      [] script = "replace_commas_with_tabs" -> ProcessCommas(outb)
      [] script = "rename_txt_to_csv" -> ProcessRename(outb)

\* the characters of the files: a letter, the dot, the two delimiters, a
\* blank and the line terminator
Alphabet == {"a", ".", TAB, ",", " ", NEWLINE}

\* the texts of n characters
TextsOfLen(n) == [1..n -> Alphabet]

\* header lines: two columns, one column
HeaderLines == { << "n", TAB, "o", NEWLINE >>, << "n", NEWLINE >> }

\* every text of a header line and up to MaxBody characters, and the
\* empty text
AllTexts ==
    { << >> } \cup
    { h \o b : h \in HeaderLines,
               b \in UNION { TextsOfLen(n) : n \in 0..MaxBody } }

\* a few texts: a name with a domain and a second field, a name alone
FewTexts ==
    { << "n", TAB, "o", NEWLINE, "a", ".", "a", TAB, "a", NEWLINE >>,
      << "n", NEWLINE, "a", ".", "a", NEWLINE, "a", NEWLINE >> }

\* the input folders a suffix script may find
Inboxes ==
    {NoFolder, MkFolder([n \in {} |-> 0])}
    \cup { MkFolder([n \in {"020_all.txt"} |-> f]) :
             f \in {Refused} \cup {MkText(t) : t \in AllTexts} }
    \cup { MkFolder([n \in {"020_all.txt", "023_CMDB_active.txt"} |->
                       IF n = "020_all.txt" THEN f ELSE g]) :
             f \in {MkText(t) : t \in FewTexts},
             g \in {Refused} \cup {MkText(t) : t \in FewTexts} }

\* the processed folders a suffix script may find: none, an empty one, one
\* with a file that cannot be replaced
SuffixOutboxes ==
    {NoFolder, MkFolder([n \in {} |-> 0]),
     MkFolder([n \in {"020_all.txt"} |-> Refused])}

\* the processed folders replace_commas_with_tabs and rename_txt_to_csv may
\* find
Outboxes ==
    {NoFolder, MkFolder([n \in {} |-> 0])}
    \cup { MkFolder([n \in {"020_all.txt"} |-> f]) :
             f \in {Refused} \cup {MkText(t) : t \in AllTexts} }
    \cup { MkFolder([n \in {"020_all.txt", "023_CMDB_active.txt",
                             "020_all.csv"} |->
                       IF n = "020_all.txt" THEN f
                       ELSE IF n = "020_all.csv" THEN g
                       ELSE MkText(t)]) :
             f \in {Refused, MkText(<< "n", NEWLINE >>)},
             g \in {Refused, MkText(<< "o", NEWLINE >>)},
             t \in FewTexts }

(***************************************************************************)
(* State.                                                                  *)
(***************************************************************************)
VARIABLES
    table,     \* the table file (020_all.csv) on disk
    ref,       \* the reference file of the running script on disk
    cur,       \* the script that is invoked
    pc,        \* position of the running script
    names,     \* the loaded reference set
    rows,      \* the rows held in memory
    res,       \* reference_index and status_index
    outcome,   \* how the last script ended
    before,    \* the table file when the script was started
    io,        \* file operations of the running script, in order
    runs,      \* scripts started so far
    orch,      \* the orchestrator: script list, loop index, position, result
    codes,     \* exit statuses of the scripts the orchestrator has run
    written,   \* the scripts of this orchestrator run that wrote the table
    lastGood,  \* the table file after the last script the orchestrator saw
               \* exit with 0, the table at the start before that
    scripts,   \* the script files that exist on disk
    inbox,     \* the folder "Data export"
    outbox,    \* the folder "Data export_processed"
    counts     \* success_count and total_count of the last batch script

vars == << table, ref, cur, pc, names, rows, res, outcome, before, io, runs,
           orch, codes, written, lastGood, scripts, inbox, outbox, counts >>

preVars == << scripts, inbox, outbox, counts >>

orchVars == << orch, codes, written, lastGood >>

\* no orchestrator: the scripts are run by hand
OrchOff == [mode |-> "off", index |-> 0, pc |-> "off", ret |-> -1]

NoIndex == [reference_index |-> -1, status_index |-> -1]

NoCounts == [success |-> 0, total |-> 0]

\* every script file of the two orchestrators' lists is on disk
AllScripts ==
    {"005", "010", "015", "020", "025", "030", "035", "040", "045", "050",
     "remove_domain_suffix", "replace_commas_with_tabs", "rename_txt_to_csv"}

\* the tagging scripts are run by hand: no folder of the batch scripts is
\* looked at
NoBatch ==
    /\ scripts = AllScripts
    /\ inbox = NoFolder
    /\ outbox = NoFolder
    /\ counts = NoCounts

\* exit status of the script process: 0 on return, 2 when the interpreter
\* cannot open the script file, 1 on an uncaught exception or sys.exit(1)
ExitCode(o) ==
    CASE o \in {"ok", "empty"} -> 0
      [] o = "cannot_open" -> 2
      [] OTHER -> 1

Init ==
    /\ cur \in Stages
    /\ table \in Tables(cur)
    /\ ref \in RefFiles
    /\ pc = "idle"
    /\ names = {}
    /\ rows = << >>
    /\ res = NoIndex
    /\ outcome = "none"
    /\ before = table
    /\ io = << >>
    /\ runs = 0
    /\ orch = OrchOff
    /\ codes = << >>
    /\ written = {}
    /\ lastGood = table
    /\ NoBatch

(***************************************************************************)
(* One tagging script, step by step.                                       *)
(***************************************************************************)
\* main(): parse_args, then the tagging function is entered
Begin ==
    /\ pc' = "load_ref"
    /\ names' = {}
    /\ rows' = << >>
    /\ res' = NoIndex
    /\ outcome' = "none"
    /\ before' = table
    /\ io' = << >>
    /\ runs' = runs + 1

\* the script is run from the command line, again with the same arguments
Start ==
    /\ orch.mode = "off"
    /\ pc \in {"idle", "done"}
    /\ runs < MaxRuns
    /\ Begin
    /\ UNCHANGED << table, ref, cur >>
    /\ UNCHANGED orchVars
    /\ UNCHANGED preVars

\* the tagging scripts are run by hand one after the other, in the order of
\* the list, each with a reference file of its own; the next one is run
\* when the one before has written the table
PipeStart ==
    /\ orch.mode = "off"
    /\ pc \in {"idle", "done"}
    /\ pc = "done" => outcome = "ok"
    /\ runs < Len(PipeStages)
    /\ cur' = PipeStages[runs + 1]
    /\ ref' \in RefFiles
    /\ Begin
    /\ UNCHANGED table
    /\ UNCHANGED orchVars
    /\ UNCHANGED preVars

\* any of the tagging scripts is run by hand, whatever has been run before
\* and however it ended
AnyStart ==
    /\ orch.mode = "off"
    /\ pc \in {"idle", "done"}
    /\ runs < MaxSeq
    /\ cur' \in SeqRange(PipeStages)
    /\ ref' \in {NoFile, RefHosts}
    /\ Begin
    /\ UNCHANGED table
    /\ UNCHANGED orchVars
    /\ UNCHANGED preVars

\* variant: a missing reference file is read as an empty list
LoadRefSkipsMissing ==
    /\ pc = "load_ref"
    /\ names' = IF ref.exists THEN load_computer_names(ref) ELSE {}
    /\ pc' = "read_table"
    /\ io' = io \o << "ref.exists", "ref.read" >>
    /\ UNCHANGED << table, ref, cur, rows, res, outcome, before, runs >>
    /\ UNCHANGED orchVars
    /\ UNCHANGED preVars

\* variant: the table is opened for writing before the reference is loaded
LoadRefAfterOpen ==
    /\ pc = "load_ref"
    /\ IF ~ref.exists
       THEN /\ outcome' = "NotFound"
            /\ pc' = "done"
            /\ io' = io \o << "table.open_w", "ref.exists" >>
            /\ table' = IF table.exists THEN Truncated ELSE table
            /\ UNCHANGED names
       ELSE /\ names' = load_computer_names(ref)
            /\ pc' = "read_table"
            /\ io' = io \o << "ref.exists", "ref.read" >>
            /\ UNCHANGED << outcome, table >>
    /\ UNCHANGED << ref, cur, rows, res, before, runs >>
    /\ UNCHANGED orchVars
    /\ UNCHANGED preVars

\* load_*(reference_file): existence check, then the read
LoadRef ==
    /\ pc = "load_ref"
    /\ IF ~ref.exists
       THEN /\ outcome' = "NotFound"
            /\ pc' = "done"
            /\ io' = Append(io, "ref.exists")
            /\ UNCHANGED names
       ELSE /\ names' = load_computer_names(ref)
            /\ pc' = "read_table"
            /\ io' = io \o << "ref.exists", "ref.read" >>
            /\ UNCHANGED outcome
    /\ UNCHANGED << table, ref, cur, rows, res, before, runs >>
    /\ UNCHANGED orchVars
    /\ UNCHANGED preVars

\* variant: no empty-table return, rows[0] raises IndexError
ReadTableNoEmptyReturn ==
    /\ pc = "read_table"
    /\ IF ~table.exists
       THEN /\ outcome' = "NotFound"
            /\ pc' = "done"
            /\ io' = Append(io, "table.exists")
            /\ UNCHANGED rows
       ELSE /\ rows' = ReadCsv(table)
            /\ io' = io \o << "table.exists", "table.read" >>
            /\ IF ReadCsv(table) = << >>
               THEN outcome' = "IndexError" /\ pc' = "done"
               ELSE outcome' = outcome /\ pc' = "compute"
    /\ UNCHANGED << table, ref, cur, names, res, before, runs >>
    /\ UNCHANGED orchVars
    /\ UNCHANGED preVars

\* all_file.exists(), the read, and the empty-table return
ReadTable ==
    /\ pc = "read_table"
    /\ IF ~table.exists
       THEN /\ outcome' = "NotFound"
            /\ pc' = "done"
            /\ io' = Append(io, "table.exists")
            /\ UNCHANGED rows
       ELSE /\ rows' = ReadCsv(table)
            /\ io' = io \o << "table.exists", "table.read" >>
            /\ IF ReadCsv(table) = << >>
               THEN outcome' = "empty" /\ pc' = "done"
               ELSE outcome' = outcome /\ pc' = "compute"
    /\ UNCHANGED << table, ref, cur, names, res, before, runs >>
    /\ UNCHANGED orchVars
    /\ UNCHANGED preVars

\* variant: the table is opened for writing before the anchor is resolved
ComputeAfterOpen ==
    /\ pc = "compute"
    /\ LET r == Tag(cur, rows, names)
       IN IF r.err # "none"
          THEN /\ outcome' = r.err
               /\ pc' = "done"
               /\ table' = Truncated
               /\ io' = Append(io, "table.open_w")
               /\ UNCHANGED << rows, res >>
          ELSE /\ rows' = r.rows
               /\ res' = [reference_index |-> r.reference_index,
                          status_index |-> r.status_index]
               /\ pc' = "open_write"
               /\ UNCHANGED << outcome, table, io >>
    /\ UNCHANGED << ref, cur, names, before, runs >>
    /\ UNCHANGED orchVars
    /\ UNCHANGED preVars

\* anchor resolution, column placement and value assignment, in memory
Compute ==
    /\ pc = "compute"
    /\ LET r == Tag(cur, rows, names)
       IN IF r.err # "none"
          THEN /\ outcome' = r.err
               /\ pc' = "done"
               /\ UNCHANGED << rows, res >>
          ELSE /\ rows' = r.rows
               /\ res' = [reference_index |-> r.reference_index,
                          status_index |-> r.status_index]
               /\ pc' = "open_write"
               /\ UNCHANGED outcome
    /\ UNCHANGED << table, ref, cur, names, before, io, runs >>
    /\ UNCHANGED orchVars
    /\ UNCHANGED preVars

\* variant: the file is opened for writing without being truncated
OpenWriteKeepsContent ==
    /\ pc = "open_write"
    /\ table' = table
    /\ io' = Append(io, "table.open_w")
    /\ pc' = "write"
    /\ UNCHANGED << ref, cur, names, rows, res, outcome, before, runs >>
    /\ UNCHANGED orchVars
    /\ UNCHANGED preVars

\* all_file.open("w"): the file is truncated
OpenWrite ==
    /\ pc = "open_write"
    /\ table' = Truncated
    /\ io' = Append(io, "table.open_w")
    /\ pc' = "write"
    /\ UNCHANGED << ref, cur, names, rows, res, outcome, before, runs >>
    /\ UNCHANGED orchVars
    /\ UNCHANGED preVars

\* writer.writerows(rows), the close, and the return
WriteRows ==
    /\ pc = "write"
    /\ table' = WriteCsv(rows)
    /\ io' = Append(io, "table.write")
    /\ outcome' = "ok"
    /\ pc' = "done"
    /\ UNCHANGED << ref, cur, names, rows, res, before, runs >>
    /\ UNCHANGED orchVars
    /\ UNCHANGED preVars

\* the positions of a script that has been started and has not returned
Running == {"load_ref", "read_table", "compute", "open_write", "write"}

\* the script process is ended from outside.  The files are left as they
\* are on disk; inside writer.writerows the rows written so far may have
\* reached the disk, the last row has not
Interrupt ==
    /\ pc \in Running
    /\ table' \in {table} \cup
                  (IF pc = "write"
                   THEN {MkFile(SubSeq(rows, 1, n), "LF") :
                           n \in 1..(Len(rows) - 1)}
                   ELSE {})
    /\ outcome' = "interrupted"
    /\ pc' = "done"
    /\ UNCHANGED << ref, cur, names, rows, res, before, io, runs >>
    /\ UNCHANGED orchVars
    /\ UNCHANGED preVars

(***************************************************************************)
(* The orchestrators.                                                      *)
(***************************************************************************)
\* the scripts list of run_main_scripts, by the number of the script
MainScripts ==
    << "005", "010", "015", "020", "025", "030", "035", "040", "045", "050" >>

\* the scripts list of run_scripts_with_delay
PreScripts ==
    << "remove_domain_suffix", "replace_commas_with_tabs", "rename_txt_to_csv" >>

ScriptList(mode) == IF mode = "main" THEN MainScripts ELSE PreScripts

\* the table files an orchestrated run may start from
OrchTables ==
    {NoFile, MkFile(<< >>, "LF")}
    \cup { MkFile(<< h >> \o Battery(h), nl) :
             h \in {<< KEY_HEADER >>, << KEY_HEADER, OTHER_HEADER >>},
             nl \in Terminators }

\* the default reference file of a script, as found on disk
OrchRefFiles == {NoFile, RefHosts}

\* the input folders run_all.py may find
OrchInboxes ==
    {NoFolder}
    \cup { MkFolder([n \in {"020_all.txt", "023_CMDB_active.txt"} |->
                       IF n = "020_all.txt" THEN f ELSE g]) :
             f \in {MkText(t) : t \in FewTexts},
             g \in {Refused} \cup {MkText(t) : t \in FewTexts} }

InitOrch ==
    /\ orch \in {[mode |-> m, index |-> 0, pc |-> "check", ret |-> -1] :
                    m \in {"main", "all"}}
    /\ cur = ScriptList(orch.mode)[1]
    /\ table \in OrchTables
    /\ ref = NoFile
    /\ pc = "idle"
    /\ names = {}
    /\ rows = << >>
    /\ res = NoIndex
    /\ outcome = "none"
    /\ before = table
    /\ io = << >>
    /\ runs = 0
    /\ codes = << >>
    /\ written = {}
    /\ lastGood = table
    /\ scripts \in {AllScripts} \cup
                    {AllScripts \ {x} : x \in SeqRange(ScriptList(orch.mode))}
    /\ inbox \in (IF orch.mode = "all" THEN OrchInboxes ELSE {NoFolder})
    /\ outbox \in (IF orch.mode = "all" THEN SuffixOutboxes ELSE {NoFolder})
    /\ counts = NoCounts

\* the loop is at a script that is still to be run
OrchAtScript ==
    /\ orch.mode # "off"
    /\ orch.pc = "check"
    /\ orch.index < Len(ScriptList(orch.mode))

\* the script the loop is at
NextScript == ScriptList(orch.mode)[orch.index + 1]

\* variant: the script files are all tested before the first one is run
OrchScriptMissingUpFront ==
    /\ OrchAtScript
    /\ orch.index = 0
    /\ \E x \in SeqRange(ScriptList(orch.mode)) : x \notin scripts
    /\ orch' = [orch EXCEPT !.pc = "returned", !.ret = 1]
    /\ UNCHANGED << table, ref, cur, pc, names, rows, res, outcome, before,
                    io, runs, codes, written, lastGood >>
    /\ UNCHANGED preVars

\* "if not script_path.exists(): return 1"
OrchScriptMissing ==
    /\ OrchAtScript
    /\ NextScript \notin scripts
    /\ orch' = [orch EXCEPT !.pc = "returned", !.ret = 1]
    /\ UNCHANGED << table, ref, cur, pc, names, rows, res, outcome, before,
                    io, runs, codes, written, lastGood >>
    /\ UNCHANGED preVars

\* subprocess.run of a tagging script, with its default file arguments
OrchLaunchTag ==
    /\ OrchAtScript
    /\ NextScript \in scripts
    /\ orch.mode = "main"
    /\ orch' = [orch EXCEPT !.pc = "running"]
    /\ cur' = MainScripts[orch.index + 1]
    /\ ref' \in OrchRefFiles
    /\ Begin
    /\ UNCHANGED << table, codes, written, lastGood >>
    /\ UNCHANGED preVars

\* subprocess.run of a pre-processing script
OrchLaunchPre ==
    /\ OrchAtScript
    /\ NextScript \in scripts
    /\ orch.mode = "all"
    /\ orch' = [orch EXCEPT !.pc = "running"]
    /\ cur' = PreScripts[orch.index + 1]
    /\ pc' = "pre"
    /\ outcome' = "none"
    /\ runs' = runs + 1
    /\ UNCHANGED << table, ref, names, rows, res, before, io, codes, written,
                    lastGood >>
    /\ UNCHANGED preVars

\* a batch script is run from the command line, with its default folder
PreStart ==
    /\ orch.mode = "off"
    /\ cur \in BatchScripts
    /\ pc = "idle"
    /\ pc' = "pre"
    /\ runs' = runs + 1
    /\ UNCHANGED << table, ref, cur, names, rows, res, outcome, before, io >>
    /\ UNCHANGED orchVars
    /\ UNCHANGED preVars

\* variant: a run that processed no file exits with 1
PreExitFailsOnNothing ==
    /\ pc = "pre"
    /\ LET r == RunBatch(cur, inbox, outbox)
       IN /\ outbox' = r.outbox
          /\ counts' = [success |-> r.success, total |-> r.total]
          /\ outcome' = IF r.success = r.total /\ r.total > 0
                        THEN "ok" ELSE "failed"
    /\ pc' = "done"
    /\ UNCHANGED << table, ref, cur, names, rows, res, before, io, runs >>
    /\ UNCHANGED orchVars
    /\ UNCHANGED << scripts, inbox >>

\* main() of a batch script: the files are processed, then
\* sys.exit(0 if success_count == total_count else 1)
PreExit ==
    /\ pc = "pre"
    /\ LET r == RunBatch(cur, inbox, outbox)
       IN /\ outbox' = r.outbox
          /\ counts' = [success |-> r.success, total |-> r.total]
          /\ outcome' = IF r.success = r.total THEN "ok" ELSE "failed"
    /\ pc' = "done"
    /\ UNCHANGED << table, ref, cur, names, rows, res, before, io, runs >>
    /\ UNCHANGED orchVars
    /\ UNCHANGED << scripts, inbox >>

\* subprocess.run of a script file that exists but that the interpreter
\* cannot open: the process ends at once
OrchScriptUnreadable ==
    /\ OrchAtScript
    /\ NextScript \in scripts
    /\ orch' = [orch EXCEPT !.pc = "running"]
    /\ cur' = ScriptList(orch.mode)[orch.index + 1]
    /\ pc' = "done"
    /\ outcome' = "cannot_open"
    /\ before' = table
    /\ io' = << >>
    /\ runs' = runs + 1
    /\ UNCHANGED << table, ref, names, rows, res, codes, written, lastGood >>
    /\ UNCHANGED preVars

\* variant: the script is started and the loop goes on without waiting for
\* it to exit
OrchCollectNoWait ==
    /\ orch.pc = "running"
    /\ codes' = Append(codes, 0)
    /\ orch' = IF orch.index + 1 = Len(ScriptList(orch.mode))
               THEN [orch EXCEPT !.index = orch.index + 1,
                                 !.pc = "returned", !.ret = 0]
               ELSE [orch EXCEPT !.index = orch.index + 1, !.pc = "check"]
    /\ UNCHANGED << table, ref, cur, pc, names, rows, res, outcome, before,
                    io, runs, written, lastGood >>
    /\ UNCHANGED preVars

\* variant: a failed script is reported and the loop goes on
OrchCollectIgnoresFailure ==
    /\ orch.pc = "running"
    /\ pc = "done"
    /\ codes' = Append(codes, ExitCode(outcome))
    /\ written' = IF outcome = "ok" /\ orch.mode = "main"
                  THEN written \cup {cur} ELSE written
    /\ lastGood' = table
    /\ orch' = IF orch.index + 1 = Len(ScriptList(orch.mode))
               THEN [orch EXCEPT !.index = orch.index + 1,
                                 !.pc = "returned", !.ret = 0]
               ELSE [orch EXCEPT !.index = orch.index + 1, !.pc = "check"]
    /\ UNCHANGED << table, ref, cur, pc, names, rows, res, outcome, before,
                    io, runs >>
    /\ UNCHANGED preVars

\* the script has exited: "if result.returncode != 0: return
\* result.returncode", else the next script, "return 0" after the last
OrchCollect ==
    /\ orch.pc = "running"
    /\ pc = "done"
    /\ codes' = Append(codes, ExitCode(outcome))
    /\ IF ExitCode(outcome) # 0
       THEN /\ orch' = [orch EXCEPT !.pc = "returned",
                                    !.ret = ExitCode(outcome)]
            /\ UNCHANGED << written, lastGood >>
       ELSE /\ written' = IF outcome = "ok" /\ orch.mode = "main"
                          THEN written \cup {cur} ELSE written
            /\ lastGood' = table
            /\ orch' = IF orch.index + 1 = Len(ScriptList(orch.mode))
                       THEN [orch EXCEPT !.index = orch.index + 1,
                                         !.pc = "returned", !.ret = 0]
                       ELSE [orch EXCEPT !.index = orch.index + 1,
                                         !.pc = "check"]
    /\ UNCHANGED << table, ref, cur, pc, names, rows, res, outcome, before,
                    io, runs >>
    /\ UNCHANGED preVars

Next ==
    \/ Start
    \/ LoadRef
    \/ ReadTable
    \/ Compute
    \/ OpenWrite
    \/ WriteRows

Spec == Init /\ [][Next]_vars

\* an orchestrator running its script list
NextOrch ==
    \/ OrchScriptMissing
    \/ OrchScriptUnreadable
    \/ OrchLaunchTag
    \/ OrchLaunchPre
    \/ PreExit
    \/ LoadRef
    \/ ReadTable
    \/ Compute
    \/ OpenWrite
    \/ WriteRows
    \/ OrchCollect

SpecOrch == InitOrch /\ [][NextOrch]_vars

\* one script run by hand that may be ended from outside at any step
NextInterrupt ==
    \/ Next
    \/ Interrupt

SpecInterrupt == Init /\ [][NextInterrupt]_vars

\* the tagging scripts run in any order on a table no script has tagged
NextAnyOrder ==
    \/ AnyStart
    \/ LoadRef
    \/ ReadTable
    \/ Compute
    \/ OpenWrite
    \/ WriteRows

\* the tagging scripts run in sequence on a table no script has tagged
InitPipe ==
    /\ cur = PipeStages[1]
    /\ table \in PipeTables
    /\ ref = NoFile
    /\ pc = "idle"
    /\ names = {}
    /\ rows = << >>
    /\ res = NoIndex
    /\ outcome = "none"
    /\ before = table
    /\ io = << >>
    /\ runs = 0
    /\ orch = OrchOff
    /\ codes = << >>
    /\ written = {}
    /\ lastGood = table
    /\ NoBatch

NextPipe ==
    \/ PipeStart
    \/ LoadRef
    \/ ReadTable
    \/ Compute
    \/ OpenWrite
    \/ WriteRows

SpecPipe == InitPipe /\ [][NextPipe]_vars

SpecAnyOrder == InitPipe /\ [][NextAnyOrder]_vars

\* one batch script run by hand on the folders it finds
InitBatch ==
    /\ cur \in BatchScripts
    /\ inbox \in (IF cur \in {"remove_domain_suffix",
                               "remove_domain_suffix_lines"}
                  THEN Inboxes ELSE {NoFolder})
    /\ outbox \in (IF cur \in {"remove_domain_suffix",
                                "remove_domain_suffix_lines"}
                   THEN SuffixOutboxes ELSE Outboxes)
    /\ scripts = AllScripts
    /\ counts = NoCounts
    /\ table = NoFile
    /\ ref = NoFile
    /\ pc = "idle"
    /\ names = {}
    /\ rows = << >>
    /\ res = NoIndex
    /\ outcome = "none"
    /\ before = NoFile
    /\ io = << >>
    /\ runs = 0
    /\ orch = OrchOff
    /\ codes = << >>
    /\ written = {}
    /\ lastGood = NoFile

NextBatch ==
    \/ PreStart
    \/ PreExit

SpecBatch == InitBatch /\ [][NextBatch]_vars

\* the batch scripts, run by hand or by an orchestrator
InitPre == InitBatch \/ InitOrch

NextPre ==
    \/ PreStart
    \/ NextOrch

SpecPre == InitPre /\ [][NextPre]_vars

(***************************************************************************)
(* Vocabulary of the properties.                                           *)
(***************************************************************************)
\* the header row of a table file with at least one row
HeaderOf(f) == ReadCsv(f)[1]

\* the data rows of a table file that have at least one field
NonEmptyDataRows(f) ==
    {k \in 2..Len(ReadCsv(f)) : ReadCsv(f)[k] # << >>}

\* the field a row holds at a 0-based position, empty when the row is shorter
FieldAt(row, i) == IF 0 <= i /\ i < Len(row) THEN row[i + 1] ELSE ""

\* the key is, after trimming, the trimmed non-empty first field of a row
\* of the reference file after its first row
InReference(key, f) ==
    \E j \in 2..Len(f.rows) :
        /\ f.rows[j] # << >>
        /\ Strip(f.rows[j][1]) # ""
        /\ Strip(f.rows[j][1]) = Strip(key)

\* the label script s owes a row with the given first field
LabelFor(s, key, f) ==
    IF InReference(key, f) THEN Config(s).yes ELSE Config(s).no

\* the script has returned after writing the table
Succeeded == pc = "done" /\ outcome = "ok"

\* no anchor candidate of script s occurs in the header
NoAnchorIn(s, header) ==
    \A i \in 1..Len(Config(s).anchors) :
        Config(s).anchors[i] \notin SeqRange(header)

(***************************************************************************)
(* C1  Idempotence: the second run of a script with the same reference     *)
(* file on the table its first run wrote leaves the table as the first run *)
(* wrote it.                                                               *)
(***************************************************************************)
C1_SecondRunLeavesTable ==
    (Succeeded /\ runs >= 2) => table = before

(***************************************************************************)
(* C2  Positional invariant: in the table an anchor-based script has       *)
(* written, the status column sits at the index of the anchor column plus  *)
(* 1, and every non-empty data row holds its status value there.           *)
(***************************************************************************)
C2_StatusRightAfterAnchor ==
    (Succeeded /\ cur \in AnchorStages) =>
        LET h == HeaderOf(table)
            a == ResolveAnchor(h, Config(cur).anchors)
            i == ListIndex(h, Config(cur).column)
        IN /\ a # -1
           /\ i = a + 1
           /\ \A k \in NonEmptyDataRows(table) :
                FieldAt(ReadCsv(table)[k], i)
                    = LabelFor(cur, ReadCsv(table)[k][1], ref)

(***************************************************************************)
(* C3  Membership correctness: in the written table the status column of   *)
(* every non-empty data row holds the yes-label when the trimmed first     *)
(* field is in the reference set and the no-label otherwise.               *)
(***************************************************************************)
C3_StatusColumnIsMembership ==
    Succeeded =>
        LET h == HeaderOf(table)
            i == ListIndex(h, Config(cur).column)
        IN /\ i # -1
           /\ \A k \in NonEmptyDataRows(table) :
                FieldAt(ReadCsv(table)[k], i)
                    = LabelFor(cur, ReadCsv(table)[k][1], ref)

C5_MissingInputsFatal ==
    pc = "done" =>
        /\ ~ref.exists =>
              /\ outcome = "NotFound"
              /\ io = << "ref.exists" >>
              /\ table = before
        /\ (ref.exists /\ ~before.exists) =>
              /\ outcome = "NotFound"
              /\ io = << "ref.exists", "ref.read", "table.exists" >>
              /\ table = before

C5_Witness ==
    /\ pc = "done"
    /\ outcome = "NotFound"
    /\ ~ref.exists
    /\ before.exists
    /\ ReadCsv(before) = << >>

(***************************************************************************)
(* C6  Empty-table no-op: with both files present and a table of zero rows *)
(* the script returns with exit status 0, never opens the table for        *)
(* writing and leaves the table file as it was.                            *)
(***************************************************************************)
C6_EmptyTableNoOp ==
    (pc = "done" /\ ref.exists /\ before.exists /\ ReadCsv(before) = << >>)
    => /\ outcome = "empty"
       /\ ExitCode(outcome) = 0
       /\ "table.open_w" \notin SeqRange(io)
       /\ table = before

C6_Witness ==
    /\ pc = "done"
    /\ outcome = "empty"
    /\ ref.exists
    /\ table.exists
    /\ runs = 1

(***************************************************************************)
(* C7  All-or-nothing: every error and the empty-table return happen       *)
(* before the table is opened for writing, so a script that has ended left *)
(* either the previous table or the complete new header and rows.          *)
(***************************************************************************)
C7_AllOrNothing ==
    /\ outcome \in {"NotFound", "ValueError", "empty"} =>
          ("table.open_w" \notin SeqRange(io) /\ table = before)
    /\ "table.open_w" \in SeqRange(io) => outcome \in {"none", "ok"}
    /\ pc = "done" =>
          \/ outcome # "ok" /\ table = before
          \/ /\ outcome = "ok"
             /\ table = WriteCsv(rows)
             /\ Len(rows) = Len(ReadCsv(before))

C7_Witness ==
    /\ pc = "done"
    /\ outcome = "ok"
    /\ table # before
    /\ Len(ReadCsv(table)) > 1

(***************************************************************************)
(* C8  Anchor resolution by priority: scripts 025, 040 and 050 take as     *)
(* anchor the first candidate of their list that occurs in the header,     *)
(* wherever the candidates sit in the header.                              *)
(***************************************************************************)
MultiAnchorStages == {"025", "040", "050"}

C8_AnchorByPriority ==
    (cur \in MultiAnchorStages /\ pc \in {"open_write", "write", "done"})
    => LET h == HeaderOf(before)
           c == Config(cur).anchors
       IN IF outcome = "ValueError"
          THEN NoAnchorIn(cur, h)
          ELSE (pc = "done" => outcome = "ok") =>
               \E j \in 1..Len(c) :
                  /\ FieldAt(h, res.reference_index) = c[j]
                  /\ res.reference_index # -1
                  /\ \A i \in 1..(j - 1) : c[i] \notin SeqRange(h)

\* a lower-priority candidate stands before a higher-priority one
C8_Witness ==
    /\ cur \in MultiAnchorStages
    /\ pc = "open_write"
    /\ \E i, j \in 1..Len(Config(cur).anchors) :
          /\ i < j
          /\ Config(cur).anchors[i] \in SeqRange(HeaderOf(before))
          /\ Config(cur).anchors[j] \in SeqRange(HeaderOf(before))
          /\ ListIndex(HeaderOf(before), Config(cur).anchors[j])
               < ListIndex(HeaderOf(before), Config(cur).anchors[i])

(***************************************************************************)
(* C9  Orchestrator abort and exit-code propagation: the orchestrator      *)
(* returns the exit status of the first script that exits non-zero,        *)
(* unchanged, starts no later script, and returns 0 only after every       *)
(* listed script has run and exited with 0.                                *)
(***************************************************************************)
C9_AbortAndPropagate ==
    /\ \A i \in 1..(Len(codes) - 1) : codes[i] = 0
    /\ orch.pc = "running" => \A i \in 1..Len(codes) : codes[i] = 0
    /\ orch.pc = "returned" =>
          /\ (codes # << >> /\ codes[Len(codes)] # 0)
                => orch.ret = codes[Len(codes)]
          /\ orch.ret = 0 =>
                /\ Len(codes) = Len(ScriptList(orch.mode))
                /\ \A i \in 1..Len(codes) : codes[i] = 0

\* a script in the middle of the list has failed and the run has returned
C9_Witness ==
    /\ orch.pc = "returned"
    /\ Len(codes) >= 2
    /\ Len(codes) < Len(ScriptList(orch.mode))
    /\ codes[Len(codes)] # 0
    /\ orch.ret = codes[Len(codes)]

(***************************************************************************)
(* C10  No rollback and no further change after a failed stage: when the   *)
(* tagging sequence aborts because a stage failed, the table file is the   *)
(* table the earlier successful stages produced, and their status columns  *)
(* are present with their labels.                                          *)
(***************************************************************************)
C10_FailedStageLeavesTable ==
    ( /\ orch.mode = "main"
      /\ orch.pc = "returned"
      /\ codes # << >>
      /\ codes[Len(codes)] # 0 )
    => /\ table = lastGood
       /\ \A s \in written :
             LET i == ListIndex(HeaderOf(table), Config(s).column)
             IN /\ i # -1
                /\ \A k \in NonEmptyDataRows(table) :
                      FieldAt(ReadCsv(table)[k], i)
                          \in {Config(s).yes, Config(s).no}

\* a stage after the first has failed by itself, earlier stages have written
C10_Witness ==
    /\ orch.mode = "main"
    /\ orch.pc = "returned"
    /\ outcome = "NotFound"
    /\ Len(codes) >= 3
    /\ codes[Len(codes)] # 0
    /\ Cardinality(written) >= 2
    /\ Len(ReadCsv(table)) > 1

(***************************************************************************)
(* C11  Pipeline column order by anchor chaining: on a table whose header  *)
(* is the key column followed by columns no script names, the scripts 005, *)
(* 010, 015, 020, 025, 030, 040, 050 run in that order, all writing the    *)
(* table, put their status columns right after the key column in the order *)
(* of the scripts, the other columns following as they were; every script  *)
(* after the first takes as anchor the status column of the script run     *)
(* just before it.                                                         *)
(***************************************************************************)
\* the status columns of the first n tagging scripts, in script order
PipeColumns(n) == [i \in 1..n |-> Config(PipeStages[i]).column]

C11_PipelineColumnOrder ==
    /\ (runs >= 2 /\ pc \in {"open_write", "write"}) =>
          /\ res.reference_index # -1
          /\ FieldAt(HeaderOf(before), res.reference_index)
                = Config(PipeStages[runs - 1]).column
          /\ res.status_index = res.reference_index + 1
    /\ Succeeded =>
          HeaderOf(table)
            = << HeaderOf(lastGood)[1] >> \o PipeColumns(runs)
              \o Tail(HeaderOf(lastGood))

\* the last script of the sequence has written a table with other columns
C11_Witness ==
    /\ Succeeded
    /\ runs = Len(PipeStages)
    /\ cur = "050"
    /\ Len(HeaderOf(lastGood)) = 3
    /\ Len(HeaderOf(table)) = 11

(***************************************************************************)
(* C12  Reference set loader: the loaded set of an existing reference file *)
(* holds a string exactly when it is the trimmed, non-empty first field of *)
(* a row with fields after the first row; the first row contributes        *)
(* nothing, equal keys are one member, and loading writes no file.         *)
(***************************************************************************)
\* row j of the reference file has a first field that is not blank
HasKey(f, j) == f.rows[j] # << >> /\ Strip(f.rows[j][1]) # ""

C12_LoaderExact ==
    (ref.exists /\ pc \notin {"idle", "load_ref"}) =>
        /\ \A x \in names :
              \E j \in 2..Len(ref.rows) :
                  HasKey(ref, j) /\ x = Strip(ref.rows[j][1])
        /\ \A j \in 2..Len(ref.rows) :
              HasKey(ref, j) => Strip(ref.rows[j][1]) \in names
        /\ Cardinality(names) <= Cardinality({j \in 2..Len(ref.rows) : HasKey(ref, j)})
        /\ pc = "read_table" =>
              /\ io = << "ref.exists", "ref.read" >>
              /\ table = before

\* a list with padded keys, a blank line, an empty key and a duplicate has
\* been loaded
C12_Witness ==
    /\ pc = "read_table"
    /\ names = {"h1", "h3"}
    /\ Cardinality({j \in 2..Len(ref.rows) : HasKey(ref, j)}) = 3
    /\ \E j \in 2..Len(ref.rows) : ref.rows[j] = << >>
    /\ \E j \in 2..Len(ref.rows) : ref.rows[j] # << >> /\ ~HasKey(ref, j)

(***************************************************************************)
(* C13  Fully-empty data rows are skipped: a data row without fields in    *)
(* the table a script is given is a row without fields in the table the    *)
(* script writes, whether the status column was absent, elsewhere or       *)
(* already in place.                                                       *)
(***************************************************************************)
\* the positions of the data rows of a table file that have no field
EmptyDataRows(f) == {k \in 2..Len(ReadCsv(f)) : ReadCsv(f)[k] = << >>}

C13_EmptyRowsStayEmpty ==
    Succeeded => \A k \in EmptyDataRows(before) : ReadCsv(table)[k] = << >>

(***************************************************************************)
(* C14  Other columns keep their values and alignment: in the table a      *)
(* script has written, every column of the given table other than the      *)
(* status column is still there, every data row holds under it the field   *)
(* it held before (a missing field counting as empty), the other header    *)
(* names follow each other as before, and the fields of a row beyond the   *)
(* length of the header are the same fields in the same order.             *)
(***************************************************************************)
\* the entries of a header other than one column, in order
OtherNames(h, column) == SelectSeq(h, LAMBDA c : c # column)

\* the entries of a header that another header holds too, in order
NamesAlsoIn(h, g) == SelectSeq(h, LAMBDA c : c \in SeqRange(g))

\* the fields of a row beyond the length n of the header
ExtraFields(row, n) == SubSeq(row, n + 1, Len(row))

C14_OtherColumnsKept ==
    Succeeded =>
        LET B == ReadCsv(before)
            T == ReadCsv(table)
            others == OtherNames(B[1], Config(cur).column)
        IN /\ \A c \in SeqRange(others) :
                /\ ListIndex(T[1], c) # -1
                /\ \A k \in 2..Len(B) :
                      FieldAt(T[k], ListIndex(T[1], c))
                          = FieldAt(B[k], ListIndex(B[1], c))
           /\ NamesAlsoIn(OtherNames(T[1], Config(cur).column), others) = others
           /\ \A k \in 2..Len(B) :
                ExtraFields(T[k], Len(T[1])) = ExtraFields(B[k], Len(B[1]))

(***************************************************************************)
(* C15  No structural change when the column is in place: a script given a *)
(* table whose status column already stands at the index of the anchor     *)
(* plus 1 (at index 1 for script 005) writes the same header and the same  *)
(* number of rows, keeps the length of every data row that reaches the     *)
(* status index, and changes no field of a data row but the status field.  *)
(***************************************************************************)
\* the index script s wants its status column at in header h, -1 when the
\* header has no anchor for it
DesiredIndexIn(s, h) ==
    IF s = "005" THEN 1
    ELSE IF ResolveAnchor(h, Config(s).anchors) = -1 THEN -1
         ELSE ResolveAnchor(h, Config(s).anchors) + 1

\* the status column of script s stands in header h where s wants it
InPlace(s, h) ==
    /\ DesiredIndexIn(s, h) # -1
    /\ ListIndex(h, Config(s).column) = DesiredIndexIn(s, h)

C15_InPlaceNoStructuralChange ==
    (Succeeded /\ InPlace(cur, HeaderOf(before))) =>
        LET B == ReadCsv(before)
            T == ReadCsv(table)
            i == ListIndex(B[1], Config(cur).column)
        IN /\ T[1] = B[1]
           /\ Len(T) = Len(B)
           /\ \A k \in 2..Len(B) :
                /\ Len(B[k]) > i => Len(T[k]) = Len(B[k])
                /\ \A j \in 0..(Len(B[k]) + Len(T[k])) :
                      j # i => FieldAt(T[k], j) = FieldAt(B[k], j)

\* a table with the column in place has been written with new values
C15_Witness ==
    /\ Succeeded
    /\ cur \in AnchorStages
    /\ InPlace(cur, HeaderOf(before))
    /\ names # {}
    /\ table # before
    /\ \E k \in 2..Len(ReadCsv(before)) :
          Len(ReadCsv(before)[k]) > ListIndex(HeaderOf(before), Config(cur).column)

(***************************************************************************)
(* C16  Row padding, as stated: every data row with fewer fields than the  *)
(* index the script computes for the status column has, in the written     *)
(* table, exactly that index plus 1 fields, empty fields from its former   *)
(* end up to the status index, and its label at the status index.          *)
(***************************************************************************)
\* row k of the written table is row k of the given table padded with
\* empty fields up to index d, with a label of script s at d
PaddedTo(s, k, d) ==
    LET b == ReadCsv(before)[k]
        t == ReadCsv(table)[k]
    IN /\ Len(t) = d + 1
       /\ \A j \in Len(b)..(d - 1) : FieldAt(t, j) = ""
       /\ t[d + 1] \in {Config(s).yes, Config(s).no}

C16_ShortRowsPadded ==
    Succeeded =>
        \A k \in 2..Len(ReadCsv(before)) :
            Len(ReadCsv(before)[k]) < res.status_index
                => PaddedTo(cur, k, res.status_index)

(***************************************************************************)
(* C16 as amended: the same for every data row that has at least one       *)
(* field; a row without fields is left without fields when the script      *)
(* neither inserts nor relocates the status column.                        *)
(***************************************************************************)
\* script s leaves the status column of header h where it is: the column
\* is in place, or the script is 005 and the column is present
LeftWhereItIs(s, h) ==
    \/ InPlace(s, h)
    \/ s = "005" /\ Config(s).column \in SeqRange(h)

C16_NonEmptyShortRowsPadded ==
    Succeeded =>
        \A k \in 2..Len(ReadCsv(before)) :
            LET b == ReadCsv(before)[k]
            IN /\ (b # << >> /\ Len(b) < res.status_index)
                    => PaddedTo(cur, k, res.status_index)
               /\ (b = << >> /\ LeftWhereItIs(cur, HeaderOf(before)))
                    => ReadCsv(table)[k] = << >>

\* a row with a key and nothing else has been padded by two fields or more
C16_Witness ==
    /\ Succeeded
    /\ res.status_index >= 3
    /\ \E k \in 2..Len(ReadCsv(before)) :
          /\ Len(ReadCsv(before)[k]) = 1
          /\ PaddedTo(cur, k, res.status_index)

(***************************************************************************)
(* C17  No out-of-range access: a script given a reference file and a      *)
(* table with at least one row, whatever the lengths of the data rows and  *)
(* wherever the status column stands, never ends with IndexError; it       *)
(* writes the table or, without an anchor, ends with ValueError.           *)
(***************************************************************************)
C17_NoIndexError ==
    /\ outcome # "IndexError"
    /\ (pc = "done" /\ ref.exists /\ before.exists /\ ReadCsv(before) # << >>)
          => outcome \in {"ok", "ValueError"}
    /\ \A k \in 1..Len(rows) : rows[k] # Raised

\* a table whose status column is not where the script wants it, with a
\* row without fields, a row shorter than the column's index and a row
\* longer than the header, has been written
C17_Witness ==
    /\ Succeeded
    /\ Config(cur).column \in SeqRange(HeaderOf(before))
    /\ ~LeftWhereItIs(cur, HeaderOf(before))
    /\ LET B == ReadCsv(before)
           c == ListIndex(B[1], Config(cur).column)
       IN /\ \E k \in 2..Len(B) : B[k] = << >>
          /\ \E k \in 2..Len(B) : 0 < Len(B[k]) /\ Len(B[k]) <= c
          /\ \E k \in 2..Len(B) : Len(B[k]) > Len(B[1])

(***************************************************************************)
(* C18  The written table does not depend on the old status values: a      *)
(* script given the same table with other values in the fields of the      *)
(* status column, and the same reference set, writes the same table; no    *)
(* field of a written data row holds the value the row had in the status   *)
(* column.                                                                 *)
(***************************************************************************)
\* values a status column may hold before a script runs
OtherOldValues == {"", "YES", "Reporting", "n/a"}

\* the rows, every field under the column replaced by v
WithStatusValues(rs, column, v) ==
    LET i == ListIndex(rs[1], column)
    IN IF i = -1 THEN rs
       ELSE << rs[1] >> \o
            [k \in 1..(Len(rs) - 1) |->
                IF Len(rs[k + 1]) > i
                THEN [rs[k + 1] EXCEPT ![i + 1] = v]
                ELSE rs[k + 1]]

C18_IndependentOfOldValues ==
    Succeeded =>
        LET B == ReadCsv(before)
            T == ReadCsv(table)
            column == Config(cur).column
        IN /\ \A v \in OtherOldValues :
                LET other == Tag(cur, WithStatusValues(B, column, v), names)
                IN other.err = "none" /\ WriteCsv(other.rows) = table
           /\ \A k \in 2..Len(T) : \A j \in 1..Len(T[k]) :
                T[k][j] # CellValue(column)

\* a status column holding old values has been relocated and written
C18_Witness ==
    /\ Succeeded
    /\ Config(cur).column \in SeqRange(HeaderOf(before))
    /\ ~LeftWhereItIs(cur, HeaderOf(before))
    /\ \E k \in 2..Len(ReadCsv(before)) :
          FieldAt(ReadCsv(before)[k],
                  ListIndex(HeaderOf(before), Config(cur).column))
              = CellValue(Config(cur).column)

(***************************************************************************)
(* C19  Torn write under interruption: a script ended from outside after   *)
(* it has opened the table for writing and before it has written the last  *)
(* row leaves a table file that is neither the table it was given nor the  *)
(* complete new table: the file holds fewer rows than either, none when    *)
(* nothing has reached the disk.  Ended before the open, it leaves the     *)
(* table as it was.                                                        *)
(***************************************************************************)
\* sequence p is the start of sequence q
IsPrefix(p, q) == Len(p) <= Len(q) /\ p = SubSeq(q, 1, Len(p))

C19_TornWrite ==
    outcome = "interrupted" =>
        IF "table.open_w" \in SeqRange(io)
        THEN /\ table # before
             /\ table # WriteCsv(rows)
             /\ table.exists
             /\ Len(ReadCsv(table)) < Len(ReadCsv(before))
             /\ Len(ReadCsv(table)) < Len(rows)
             /\ IsPrefix(ReadCsv(table), rows)
        ELSE table = before

\* a table with data rows has been left with no row at all
C19_Witness ==
    /\ outcome = "interrupted"
    /\ pc = "done"
    /\ "table.open_w" \in SeqRange(io)
    /\ table = Truncated
    /\ Len(ReadCsv(before)) > 1

(***************************************************************************)
(* C20  Strictly sequential stages, single writer: under the orchestrator  *)
(* a script runs only while the loop waits for it, it is the script at the *)
(* loop index, and every script before it has exited with 0; when the loop *)
(* is about to start a script, or has returned, no script is running, so   *)
(* the scripts started outnumber the scripts that have exited by one at    *)
(* most and the table has one writer at most.                              *)
(***************************************************************************)
C20_OneScriptAtATime ==
    /\ pc \in Running \cup {"pre"} =>
          /\ orch.pc = "running"
          /\ cur = ScriptList(orch.mode)[orch.index + 1]
          /\ Len(codes) = orch.index
          /\ \A i \in 1..Len(codes) : codes[i] = 0
    /\ orch.pc \in {"check", "returned"} =>
          /\ pc \in {"idle", "done"}
          /\ runs = Len(codes)
    /\ orch.pc = "running" => runs = Len(codes) + 1
    /\ table = Truncated /\ pc = "write" => orch.pc = "running"

\* a tagging script after the first is writing the table
C20_Witness ==
    /\ orch.mode = "main"
    /\ orch.pc = "running"
    /\ orch.index >= 2
    /\ pc = "write"
    /\ table = Truncated
    /\ Cardinality(written) >= 2

(***************************************************************************)
(* C21  Pipeline order whatever the run order: on a table that started     *)
(* with none of the status column names, after any sequence of runs of the *)
(* tagging scripts, failed runs included, the status columns the header    *)
(* holds stand in one block from index 1 on, in the order of the scripts.  *)
(***************************************************************************)
\* the status columns of the tagging scripts that header h holds, in the
\* order of the scripts
StatusColumnsIn(h) ==
    SelectSeq(PipeColumns(Len(PipeStages)), LAMBDA c : c \in SeqRange(h))

C21_BlockInPipelineOrder ==
    ReadCsv(table) # << >> =>
        LET h == HeaderOf(table)
            present == StatusColumnsIn(h)
        IN /\ h[1] = KEY_HEADER
           /\ SubSeq(h, 2, Len(present) + 1) = present
           /\ SubSeq(h, Len(present) + 2, Len(h)) = Tail(HeaderOf(lastGood))

\* scripts have been run out of order: 025 before 020, which then puts its
\* column between two others
C21_Witness ==
    /\ Succeeded
    /\ cur = "020"
    /\ MISSING_SCAN_HEADER \in SeqRange(HeaderOf(before))
    /\ FAILED_SCAN_HEADER \notin SeqRange(HeaderOf(before))
    /\ Len(StatusColumnsIn(HeaderOf(table))) >= 5

(***************************************************************************)
(* C22  Pre-processing delivers domain-stripped names for every file:      *)
(* after scripts/remove_domain_suffix.py has run, every .txt file it wrote *)
(* to the processed folder, 023_CMDB_active.txt included, has in every     *)
(* line after the first a first field without a dot.                       *)
(***************************************************************************)
\* the first field of a line: the characters before its first delimiter
FirstField(line) ==
    LET ends == {i \in 1..Len(line) : line[i] \in {TAB, ","}}
    IN IF ends = {} THEN line ELSE SubSeq(line, 1, MinOf(ends) - 1)

\* no line of the text after the first has a dot in its first field
DotFree(t) ==
    \A k \in 2..Len(SplitLines(t)) :
        "." \notin SeqRange(FirstField(SplitLines(t)[k]))

\* the batch script has exited
BatchDone(script) == pc = "done" /\ cur = script

C22_ProcessedNamesDotFree ==
    BatchDone("remove_domain_suffix") =>
        \A n \in TxtFiles(outbox) :
            outbox.files[n].ok => DotFree(outbox.files[n].text)

(***************************************************************************)
(* C23  The line-based remove_domain_suffix_from_computer_name changes     *)
(* only the first field: the text written has as many lines as the text    *)
(* read, the same first line, and every later line is the line read with   *)
(* its first tab-separated field cut at its first dot, the other fields    *)
(* and the line terminator kept, also when the line has a single field.    *)
(***************************************************************************)
\* the terminator of a line: what Chomp takes away
TerminatorOf(line) == SubSeq(line, Len(Chomp(line)) + 1, Len(line))

\* the line with its first tab-separated field cut at the first dot
FirstFieldCut(line) ==
    LET parts == SplitOn(Chomp(line), TAB)
    IN JoinWith(<< BeforeFirstDot(parts[1]) >> \o Tail(parts), TAB)
       \o TerminatorOf(line)

\* text out is text in with only the first fields of its data lines cut
OnlyFirstFieldCut(in, out) ==
    /\ Len(ReadLines(out)) = Len(ReadLines(in))
    /\ \A k \in 1..Len(ReadLines(in)) :
          ReadLines(out)[k] =
              IF k = 1 THEN ReadLines(in)[1]
              ELSE FirstFieldCut(ReadLines(in)[k])

\* the .txt files the batch script has read and written
Processed ==
    {n \in TxtFiles(inbox) :
        /\ inbox.files[n].ok
        /\ n \in DOMAIN outbox.files
        /\ outbox.files[n].ok}

C23_OnlyFirstFieldChanges ==
    BatchDone("remove_domain_suffix_lines") =>
        \A n \in Processed :
            OnlyFirstFieldCut(inbox.files[n].text, outbox.files[n].text)

(***************************************************************************)
(* C24  Stage 010 creates its missing anchor instead of failing: given a   *)
(* table whose header does not hold 'Not reporting to BigFix',             *)
(* tag_cmdb_status writes the table with that column at index 1, an empty  *)
(* field there in every data row, and 'CMDB Status' at index 2.  As        *)
(* stated: the header grows by two columns.                                *)
(***************************************************************************)
\* script 010 has returned, with its files there, from a table with at
\* least the header row and without the anchor column
Ran010WithoutAnchor ==
    /\ pc = "done"
    /\ cur = "010"
    /\ ref.exists /\ before.exists /\ ReadCsv(before) # << >>
    /\ STATUS_HEADER \notin SeqRange(HeaderOf(before))

\* the table written has the anchor column at 1, empty in every data row,
\* and the CMDB column at 2
AnchorCreated ==
    /\ outcome = "ok"
    /\ "table.write" \in SeqRange(io)
    /\ ListIndex(HeaderOf(table), STATUS_HEADER) = 1
    /\ ListIndex(HeaderOf(table), CMDB_STATUS_HEADER) = 2
    /\ \A k \in 2..Len(ReadCsv(table)) :
          /\ Len(ReadCsv(table)[k]) >= 2
          /\ FieldAt(ReadCsv(table)[k], 1) = ""

C24_AnchorCreatedGrowsByTwo ==
    Ran010WithoutAnchor =>
        /\ AnchorCreated
        /\ Len(HeaderOf(table)) = Len(HeaderOf(before)) + 2

(***************************************************************************)
(* C24 as amended: the same, and the header grows by two columns when it   *)
(* did not hold 'CMDB Status' either, and by one column when it held       *)
(* 'CMDB Status', which is then moved to index 2 and not inserted.         *)
(***************************************************************************)
C24_AnchorCreated ==
    Ran010WithoutAnchor =>
        /\ AnchorCreated
        /\ Len(HeaderOf(table)) =
              Len(HeaderOf(before)) +
              (IF CMDB_STATUS_HEADER \in SeqRange(HeaderOf(before))
               THEN 1 ELSE 2)

\* both columns were absent and a data row had no field at all
C24_Witness ==
    /\ Ran010WithoutAnchor
    /\ outcome = "ok"
    /\ CMDB_STATUS_HEADER \notin SeqRange(HeaderOf(before))
    /\ OTHER_HEADER \in SeqRange(HeaderOf(before))
    /\ \E k \in 2..Len(ReadCsv(before)) : ReadCsv(before)[k] = << >>
    /\ Len(HeaderOf(table)) = Len(HeaderOf(before)) + 2

(***************************************************************************)
(* C25  Stage 005 never relocates: tag_reporting_status inserts 'Not       *)
(* reporting to BigFix' at header index 1 when the column is absent; a     *)
(* column that is present is left at its index, whatever it is, and only   *)
(* the values under it are rewritten.  After stage 005 the column is at    *)
(* index 1 if and only if it was absent or already at index 1.             *)
(***************************************************************************)
\* row new is row old with nothing changed except at the 0-based position i
SameExceptAt(old, new, i) ==
    /\ Len(new) >= Len(old)
    /\ \A j \in 0..(Len(new) - 1) :
          j # i => FieldAt(new, j) = FieldAt(old, j)

C25_Stage005NeverRelocates ==
    (Succeeded /\ cur = "005") =>
        LET hb == HeaderOf(before)
            ht == HeaderOf(table)
            i == ListIndex(hb, STATUS_HEADER)
        IN /\ i = -1 => ht = ListInsert(hb, 1, STATUS_HEADER)
           /\ i # -1 =>
                 /\ ht = hb
                 /\ Len(ReadCsv(table)) = Len(ReadCsv(before))
                 /\ \A k \in 2..Len(ReadCsv(before)) :
                       SameExceptAt(ReadCsv(before)[k], ReadCsv(table)[k], i)
           /\ (ListIndex(ht, STATUS_HEADER) = 1) <=> (i = -1 \/ i = 1)

\* the column was found at index 2, behind another column, and is still there
C25_Witness ==
    /\ Succeeded
    /\ cur = "005"
    /\ ListIndex(HeaderOf(before), STATUS_HEADER) = 2
    /\ ListIndex(HeaderOf(table), STATUS_HEADER) = 2
    /\ \E k \in NonEmptyDataRows(table) :
          FieldAt(ReadCsv(table)[k], 2) \in {NOT_REPORTING_LABEL, REPORTING_LABEL}

(***************************************************************************)
(* C26  Header names stay unique and the status column is never            *)
(* duplicated: after a successful run on a header with unique names the    *)
(* status column name occurs once in the header, every name of the header  *)
(* read occurs once, and the header is longer by 1 when the status column  *)
(* was absent and by 0 when it was present, not counting the anchor column *)
(* that 010 creates when it is missing.                                    *)
(***************************************************************************)
\* how often name x occurs in header h
Occurrences(h, x) == Cardinality({i \in 1..Len(h) : h[i] = x})

\* 1 when script s creates its anchor column in header h, else 0
AnchorGrowth(s, h) ==
    IF s = "010" /\ STATUS_HEADER \notin SeqRange(h) THEN 1 ELSE 0

C26_HeaderNamesStayUnique ==
    Succeeded =>
        LET hb == HeaderOf(before)
            ht == HeaderOf(table)
            column == Config(cur).column
        IN /\ Occurrences(ht, column) = 1
           /\ \A x \in SeqRange(hb) : Occurrences(ht, x) = 1
           /\ \A x \in SeqRange(ht) : Occurrences(ht, x) = 1
           /\ Len(ht) = Len(hb) + AnchorGrowth(cur, hb)
                        + (IF column \in SeqRange(hb) THEN 0 ELSE 1)

\* the column was found away from its place and has been relocated
C26_Witness ==
    /\ Succeeded
    /\ cur \in AnchorStages
    /\ Config(cur).column \in SeqRange(HeaderOf(before))
    /\ HeaderOf(table) # HeaderOf(before)
    /\ Len(HeaderOf(table)) = Len(HeaderOf(before))
    /\ Len(HeaderOf(before)) >= 4

(***************************************************************************)
(* C27  Rows and keys are preserved: a successful run writes as many rows  *)
(* as it read, in the same order, and the first field of every data row    *)
(* is written back as it was read; the trimming is applied to the copy     *)
(* that is looked up in the reference set, not to the field.               *)
(***************************************************************************)
C27_RowsAndKeysPreserved ==
    Succeeded =>
        /\ Len(ReadCsv(table)) = Len(ReadCsv(before))
        /\ \A k \in NonEmptyDataRows(before) :
              /\ ReadCsv(table)[k] # << >>
              /\ ReadCsv(table)[k][1] = ReadCsv(before)[k][1]

\* a key with blanks around it was matched after trimming and is written
\* back with its blanks
C27_Witness ==
    /\ Succeeded
    /\ ref = RefHosts
    /\ \E k \in NonEmptyDataRows(before) :
          /\ ReadCsv(before)[k][1] = " h1 "
          /\ ReadCsv(table)[k][1] = " h1 "
          /\ FieldAt(ReadCsv(table)[k], res.status_index) = Config(cur).yes
    /\ \E k \in NonEmptyDataRows(before) : ReadCsv(before)[k][1] = "H1"

(***************************************************************************)
(* C28  Script existence is checked lazily: an orchestrator tests whether  *)
(* a script file exists only when the loop reaches it.  With the script at *)
(* list position k missing, and no script before it failing, the           *)
(* orchestrator returns 1 after scripts 1..k-1 have run and exited, and    *)
(* scripts k..n are not run; a failure of a script before k is returned    *)
(* as it is without k being looked at.                                     *)
(***************************************************************************)
\* the list positions of the script files that are not there
MissingPositions ==
    {i \in 1..Len(ScriptList(orch.mode)) : ScriptList(orch.mode)[i] \notin scripts}

\* the orchestrator has returned and a script file of its list is missing
ReturnedWithMissing ==
    /\ orch.mode # "off"
    /\ orch.pc = "returned"
    /\ MissingPositions # {}

C28_LazyExistenceCheck ==
    ReturnedWithMissing =>
        LET k == MinOf(MissingPositions)
        IN IF \A i \in 1..Len(codes) : codes[i] = 0
           THEN /\ orch.ret = 1
                /\ Len(codes) = k - 1
                /\ runs = k - 1
                /\ orch.index = k - 1
                /\ k > 1 => cur = ScriptList(orch.mode)[k - 1]
           ELSE /\ Len(codes) < k
                /\ runs = Len(codes)
                /\ orch.ret = codes[Len(codes)]
                /\ orch.ret # 0

\* the third tagging script is missing: the first two have run and written
\* the table, and the orchestrator has returned 1
C28_Witness ==
    /\ ReturnedWithMissing
    /\ orch.mode = "main"
    /\ MinOf(MissingPositions) = 3
    /\ orch.ret = 1
    /\ codes = << 0, 0 >>
    /\ written = {"005", "010"}
    /\ CMDB_STATUS_HEADER \in SeqRange(HeaderOf(table))
    /\ table # before

(***************************************************************************)
(* C29  Exit status of the batch scripts: a batch script exits with 0      *)
(* exactly when the number of files it processed equals the number of      *)
(* .txt files it found, and with a non-zero status when at least one file  *)
(* failed.  A missing folder or a folder without .txt files is zero of     *)
(* zero and gives 0, and run_all.py goes on with the next script.          *)
(***************************************************************************)
\* a batch script has run and exited
BatchExited ==
    /\ pc = "done"
    /\ cur \in BatchScripts
    /\ outcome # "cannot_open"

\* the .txt files the batch script found and could not process, as the
\* folders show them after the run: not read or not written, not replaced
\* in place, not renamed
FailedFiles ==
    CASE cur \in {"remove_domain_suffix", "remove_domain_suffix_lines"} ->
            IF inbox.exists THEN TxtFiles(inbox) \ Processed ELSE {}
      [] cur = "replace_commas_with_tabs" ->
            {n \in TxtFiles(outbox) : ~outbox.files[n].ok}
      [] cur = "rename_txt_to_csv" -> TxtFiles(outbox)

\* the batch script found no folder or no .txt file in it
NothingFound ==
    IF cur \in {"remove_domain_suffix", "remove_domain_suffix_lines"}
    THEN ~inbox.exists \/ TxtFiles(inbox) = {}
    ELSE IF cur = "replace_commas_with_tabs"
    THEN ~outbox.exists \/ TxtFiles(outbox) = {}
    ELSE ~outbox.exists \/ DOMAIN outbox.files = {}

\* run_all.py has collected an exit status of 0 from its last script
CollectedZero ==
    /\ orch.mode = "all"
    /\ orch.pc # "running"
    /\ codes # << >>
    /\ codes[Len(codes)] = 0

C29_BatchExitStatus ==
    /\ BatchExited =>
          /\ ExitCode(outcome) = 0 <=> counts.success = counts.total
          /\ ExitCode(outcome) # 0 <=> FailedFiles # {}
          /\ counts.total - counts.success = Cardinality(FailedFiles)
          /\ NothingFound =>
                /\ counts = NoCounts
                /\ ExitCode(outcome) = 0
    /\ CollectedZero =>
          /\ orch.index = Len(codes)
          /\ orch.pc = "returned" =>
                IF orch.index = Len(PreScripts)
                THEN orch.ret = 0
                ELSE NextScript \notin scripts /\ orch.ret = 1

\* run_all.py without the input folder: remove_domain_suffix has exited
\* with 0 on zero of zero, and the next script has been run
C29_Witness ==
    /\ orch.mode = "all"
    /\ ~inbox.exists
    /\ codes = << 0 >>
    /\ BatchExited
    /\ cur = "replace_commas_with_tabs"
    /\ counts = NoCounts

====
